---- MODULE Spec2Model ----
(***************************************************************************)
(* A model of talus_client's schema-bound entities (models.py), of its     *)
(* polymorphic parameter trees and of the nested interactive editors that  *)
(* edit them (param_model.py, cmds/__init__.py), as the create and edit    *)
(* commands of cmds/jobs.py, tasks.py, oses.py and images.py run them, of  *)
(* the candidate prompt (utils.py) and of the --vm-max texts (api.py).     *)
(*                                                                         *)
(* Python values are tagged records.  Text is a sequence of one-character  *)
(* strings so that int(text) can be computed as Python computes it.        *)
(* Dictionaries are functions from key strings to values.                  *)
(***************************************************************************)
EXTENDS Integers, Sequences, FiniteSets, TLC

VARIABLES
    ent,        \* SpecEntity: the entity's _fields mapping (key -> cell)
    schemaName, \* SpecEntity: the entity's class ("Job" or "OS")
    copy,       \* SpecEntity: the entity re-instantiated from ent's payload
    elast,      \* SpecEntity: the last operation applied to ent
    model,      \* Spec: the entity the running create/edit command edits
    stack,      \* Spec: the nested command loops, innermost last
    phase,      \* Spec: where the calling create/edit command stands
    requests,   \* Spec: create/update requests sent to the Entity Store
    last,       \* Spec: what the last command of an editor did
    ncmd,       \* Spec: the command lines the editors have read
    ref,        \* SpecResolver: a reference value and what it resolves to
    store,      \* SpecStore: the records of the Entity Store, in creation order
    leaf,       \* SpecLeaf: one `set` line on a parameter mapping and its outcome
    dur,        \* SpecDuration: one --vm-max text and the seconds made of it
    heap        \* SpecDefaults: the default objects of the schema and the entities' cells

evars == <<ent, schemaName, copy, elast>>
xvars == <<model, stack, phase, requests, last, ncmd>>
rvars == <<ref>>
vars == <<ent, schemaName, copy, elast, model, stack, phase, requests, last, ncmd, ref,
          store, leaf, dur, heap>>

\* what the actions of one specification leave alone
nonEntity == <<xvars, rvars, store, leaf, dur, heap>>
nonEditor == <<evars, rvars, store, leaf, dur, heap>>
nonResolver == <<evars, xvars, store, leaf, dur, heap>>
nonStore == <<schemaName, copy, model, stack, phase, last, ncmd, ref, leaf, dur, heap>>
nonLeaf == <<evars, xvars, rvars, store, dur, heap>>
nonDuration == <<evars, xvars, rvars, store, leaf, heap>>
nonDefaults == <<evars, xvars, rvars, store, leaf, dur>>

(***************************************************************************)
(* Python values                                                           *)
(***************************************************************************)
NoneV == [k |-> "none"]
StrV(s) == [k |-> "str", s |-> s]
IntV(n) == [k |-> "int", n |-> n]
BoolV(b) == [k |-> "bool", b |-> b]
ListV(l) == [k |-> "list", l |-> l]
DictV(d) == [k |-> "dict", d |-> d]
\* the outcome of a call that raises instead of returning
Raise(exc) == [k |-> "raise", exc |-> exc]

EmptyDict == [x \in {} |-> NoneV]

IsDict(v) == v.k = "dict"
HasKey(v, key) == IsDict(v) /\ key \in DOMAIN v.d

(***************************************************************************)
(* Text                                                                    *)
(***************************************************************************)
Digits == {"0", "1", "2", "3", "4", "5", "6", "7", "8", "9"}

DigitVal(c) ==
    CASE c = "0" -> 0 [] c = "1" -> 1 [] c = "2" -> 2 [] c = "3" -> 3
      [] c = "4" -> 4 [] c = "5" -> 5 [] c = "6" -> 6 [] c = "7" -> 7
      [] c = "8" -> 8 [] c = "9" -> 9

AllDigits(t) == Len(t) > 0 /\ \A i \in 1..Len(t) : t[i] \in Digits

RECURSIVE DigitsVal(_)
DigitsVal(t) ==
    IF Len(t) = 0 THEN 0
    ELSE 10 * DigitsVal(SubSeq(t, 1, Len(t) - 1)) + DigitVal(t[Len(t)])

\* int(text): an optional sign and at least one digit, else ValueError
PyInt(t) ==
    IF AllDigits(t) THEN IntV(DigitsVal(t))
    ELSE IF Len(t) > 1 /\ t[1] = "-" /\ AllDigits(Tail(t)) THEN IntV(0 - DigitsVal(Tail(t)))
    ELSE IF Len(t) > 1 /\ t[1] = "+" /\ AllDigits(Tail(t)) THEN IntV(DigitsVal(Tail(t)))
    ELSE Raise("ValueError")

\* str.lower() over the letters the model's tokens use
LowerChar(c) ==
    CASE c = "Y" -> "y" [] c = "T" -> "t" [] c = "N" -> "n" [] OTHER -> c

Lower(t) == [i \in 1..Len(t) |-> LowerChar(t[i])]

TrueWords == {<<"t", "r", "u", "e">>, <<"t">>, <<"y", "e", "s">>, <<"y">>}

(***************************************************************************)
(* Field, RefField (models.py)                                             *)
(***************************************************************************)
\* Field.validate with the validators the schemas declare.  Python 2 orders
\* every number before every string, so 0 <= "150" <= 100 is False.
RunValidation(validation, v) ==
    CASE validation = "range_0_100" ->
            IF v.k = "int" THEN 0 <= v.n /\ v.n <= 100 ELSE FALSE
      [] validation = "os_type" ->
            v \in {StrV(<<"w">>), StrV(<<"l">>)}
      [] OTHER -> TRUE

FieldValidate(fd, v) ==
    IF fd.validation = "none" THEN TRUE ELSE RunValidation(fd.validation, v)

RECURSIVE NatText(_)
NatText(n) ==
    IF n < 10 THEN <<CHOOSE c \in Digits : DigitVal(c) = n>>
    ELSE NatText(n \div 10) \o <<CHOOSE c \in Digits : DigitVal(c) = n % 10>>

\* str(n)
IntText(n) == IF n < 0 THEN <<"-">> \o NatText(0 - n) ELSE NatText(n)

\* type(self.value)(v) for the default's type: int(v), str(v), list(v), dict(v)
CastTo(kind, v) ==
    CASE kind = "int" ->
            IF v.k = "str" THEN PyInt(v.s)
            ELSE IF v.k = "int" THEN v
            ELSE Raise("TypeError")
      [] kind = "str" /\ v.k = "str" -> v
      [] kind = "str" /\ v.k = "int" -> StrV(IntText(v.n))
      [] kind = "list" ->
            IF v.k = "list" THEN v
            ELSE IF v.k = "str" THEN ListV([i \in 1..Len(v.s) |-> StrV(<<v.s[i]>>)])
            ELSE Raise("TypeError")
      [] kind = "dict" ->
            IF v.k = "dict" THEN v
            ELSE IF v.k = "int" THEN Raise("TypeError")
            ELSE Raise("ValueError")

FieldCast(fd, v) ==
    IF fd.default = NoneV THEN v
    ELSE IF fd.default.k = "bool" THEN
        IF v.k = "str" THEN BoolV(Lower(v.s) \in TrueWords)
        ELSE Raise("AttributeError")
    ELSE CastTo(fd.default.k, v)

Bang == <<"!">>

\* d[key]["$oid"] without the "!" in front
BrokenMarkerNoBang(inner) ==
    IF HasKey(inner, "$oid") THEN inner.d["$oid"] ELSE Raise("KeyError")

\* "!" + d[key]["$oid"]
BrokenMarker(inner) ==
    IF HasKey(inner, "$oid") /\ inner.d["$oid"].k = "str"
    THEN StrV(Bang \o inner.d["$oid"].s)
    ELSE IF HasKey(inner, "$oid") THEN Raise("TypeError")
    ELSE IF IsDict(inner) THEN Raise("KeyError")
    ELSE Raise("TypeError")

\* a get_val that marks every identifier it returns
RefFieldGetValMarking(value) ==
    IF HasKey(value, "id") /\ value.d["id"].k = "str" THEN StrV(Bang \o value.d["id"].s)
    ELSE IF value.k = "str" THEN StrV(Bang \o value.s)
    ELSE value

RefFieldGetVal(value) ==
    IF HasKey(value, "id") THEN value.d["id"]
    ELSE IF HasKey(value, "_id") THEN BrokenMarker(value.d["_id"])
    ELSE IF HasKey(value, "$id") THEN BrokenMarker(value.d["$id"])
    ELSE value

\* a cell of _fields: a Field or RefField object with its value, or, for a
\* key the schema does not declare, the raw value itself
Cell(cls, value) == [cls |-> cls, value |-> value]

GetVal(cell) ==
    IF cell.cls = "RefField" THEN RefFieldGetVal(cell.value) ELSE cell.value

\* Field.dup: self.__class__(self.get_val()).  RefField's first positional
\* parameter is cls_name, so a duplicated RefField starts with value None.
FieldDup(fd) ==
    IF fd.cls = "RefField" THEN Cell("RefField", NoneV)
    ELSE Cell("Field", fd.default)

(***************************************************************************)
(* Schemas (the class-level `fields` of the models)                        *)
(***************************************************************************)
FieldDecl(default, validation) ==
    [cls |-> "Field", default |-> default, validation |-> validation]
RefDecl(target) ==
    [cls |-> "RefField", default |-> NoneV, validation |-> "none", target |-> target]

JobFields ==
    [ name     |-> FieldDecl(StrV(<< >>), "none"),
      task     |-> RefDecl("Task"),
      priority |-> FieldDecl(IntV(50), "range_0_100"),
      progress |-> FieldDecl(NoneV, "none"),
      image    |-> RefDecl("Image"),
      params   |-> FieldDecl(DictV(EmptyDict), "none") ]

TaskFields ==
    [ name     |-> FieldDecl(StrV(<< >>), "none"),
      tool     |-> RefDecl("Code"),
      params   |-> FieldDecl(DictV(EmptyDict), "none"),
      limit    |-> FieldDecl(IntV(1), "none") ]

OSFields ==
    [ name     |-> FieldDecl(StrV(<< >>), "none"),
      type     |-> FieldDecl(StrV(<< >>), "os_type") ]

ImageFields ==
    [ name       |-> FieldDecl(StrV(<< >>), "none"),
      os         |-> RefDecl("OS"),
      base_image |-> RefDecl("Image") ]

ClassFields(cname) ==
    CASE cname = "Job" -> JobFields
      [] cname = "Task" -> TaskFields
      [] cname = "OS" -> OSFields
      [] cname = "Image" -> ImageFields

(***************************************************************************)
(* TalusModel (models.py)                                                  *)
(***************************************************************************)
\* _populate: every schema key gets a duplicate of its class field, overlaid
\* by the payload's value; every other payload key is kept as it is
\* a _populate that drops the keys the class does not declare
PopulateDeclaredOnly(fields, payload) ==
    [key \in DOMAIN fields |->
        IF key \in DOMAIN payload
        THEN Cell(FieldDup(fields[key]).cls, payload[key])
        ELSE FieldDup(fields[key])]

Populate(fields, payload) ==
    [key \in (DOMAIN fields) \cup (DOMAIN payload) |->
        IF key \in DOMAIN fields THEN
            IF key \in DOMAIN payload
            THEN Cell(FieldDup(fields[key]).cls, payload[key])
            ELSE FieldDup(fields[key])
        ELSE Cell("raw", payload[key])]

\* __init__: without keyword fields, the payload is the duplicated class
\* fields, whose get_val() _populate copies
ModelInit(fields, payload) ==
    IF DOMAIN payload = {}
    THEN Populate(fields, [key \in DOMAIN fields |-> GetVal(FieldDup(fields[key]))])
    ELSE Populate(fields, payload)

Falsy(v) ==
    \/ v = NoneV
    \/ v.k = "str" /\ v.s = << >>
    \/ v.k = "int" /\ v.n = 0

\* a _filtered_fields that skips every falsy value (`if not v`)
FilteredFieldsTruthy(flds) ==
    [key \in {x \in DOMAIN flds : ~Falsy(GetVal(flds[x]))} |-> GetVal(flds[key])]

\* a _filtered_fields without the None test
FilteredFieldsKeepNull(flds) == [key \in DOMAIN flds |-> GetVal(flds[key])]

\* _filtered_fields: the payload save() sends
FilteredFields(flds) ==
    [key \in {x \in DOMAIN flds : GetVal(flds[x]) # NoneV} |-> GetVal(flds[key])]

\* __setattr__ for a name of _fields (any other name becomes a plain
\* attribute of the object and leaves _fields alone)
ModelSetAttr(flds, name, value) ==
    IF name \notin DOMAIN flds THEN flds
    ELSE [flds EXCEPT ![name] = Cell(flds[name].cls, value)]

\* a clear_id that leaves the identifier in place
ModelClearIdKeep(flds) == flds

\* clear_id
ModelClearId(flds) ==
    [key \in (DOMAIN flds) \ {"id"} |-> flds[key]]

\* __getattr__ over every key
Values(flds) == [key \in DOMAIN flds |-> GetVal(flds[key])]

(***************************************************************************)
(* The Type Registry and the Entity Store as the editors see them          *)
(***************************************************************************)
\* a Python string the program never takes apart: one symbol of text
Sym(n) == StrV(<<n>>)
SymName(v) == v.s[1]

\* an entry of Code.params: pinfo["type"]["type"], pinfo["type"]["name"]
PInfo(type, tname) == [type |-> type, name |-> tname]

\* the Code models of the store: two tools, a component class CompA with a
\* subclass CompB, and a component class CompD without subclasses
Codes ==
    [ ToolA |-> [type |-> "tool", bases |-> {},
                 params |-> [p |-> PInfo("native", "int"),
                             a |-> PInfo("component", "CompA")]],
      ToolB |-> [type |-> "tool", bases |-> {},
                 params |-> [p |-> PInfo("native", "int"),
                             d |-> PInfo("native", "dict")]],
      CompA |-> [type |-> "component", bases |-> {},
                 params |-> [x |-> PInfo("native", "int"),
                             b |-> PInfo("component", "CompD")]],
      CompB |-> [type |-> "component", bases |-> {"CompA"},
                 params |-> [y |-> PInfo("native", "int")]],
      CompD |-> [type |-> "component", bases |-> {},
                 params |-> [c |-> PInfo("native", "str")]] ]

\* the names code_model.params declares
Declared(code) == DOMAIN Codes[code].params

\* a code_iter that lists the base class among its own subclasses
DescendantsWithBase(base) ==
    {c \in DOMAIN Codes : Codes[c].type = "component" /\ (c = base \/ base \in Codes[c].bases)}

\* code_iter(type_="component", bases=base)
Descendants(base) ==
    {c \in DOMAIN Codes : Codes[c].type = "component" /\ base \in Codes[c].bases}

\* a component value of a parameter tree: {"class": ..., "params": {...}}
CompV(cls, sub) == DictV([class |-> Sym(cls), params |-> DictV(sub)])

\* the Task records of the store
Tasks ==
    [ t1 |-> [tool |-> "ToolA", image |-> Sym("i1"),
              params |-> [p |-> IntV(1), a |-> CompV("CompA", [x |-> IntV(1)])]],
      t2 |-> [tool |-> "ToolB", image |-> NoneV,
              params |-> [p |-> IntV(2), a |-> NoneV]] ]

(***************************************************************************)
(* ParameterCmd (param_model.py): the pure parts                           *)
(***************************************************************************)
\* an __init__ that starts every editor on an empty mapping
ParameterCmdInitEmpty(params, code) == EmptyDict

\* __init__: the parameters the code model no longer declares are deleted
ParameterCmdInit(params, code) ==
    [n \in (DOMAIN params) \cap Declared(code) |-> params[n]]

\* float(text) over the model's tokens, which hold no decimal point
PyFloat(t) ==
    IF PyInt(t).k = "int" THEN [k |-> "float", n |-> PyInt(t).n] ELSE Raise("ValueError")

\* a _convert_val whose every lambda takes x[0]
ConvertValFirstToken(tname, vals) ==
    CASE tname \in {"list", "tuple", "str", "unicode"} -> StrV(vals[1])
      [] tname = "int" -> PyInt(vals[1])
      [] tname = "float" -> PyFloat(vals[1])
      [] OTHER -> Raise("KeyError")

\* _convert_val: switch[param_type["type"]["name"]](vals)
ConvertVal(tname, vals) ==
    CASE tname = "list" -> ListV([i \in 1..Len(vals) |-> StrV(vals[i])])
      [] tname = "tuple" -> [k |-> "tuple", l |-> [i \in 1..Len(vals) |-> StrV(vals[i])]]
      [] tname = "int" -> PyInt(vals[1])
      [] tname = "float" -> PyFloat(vals[1])
      [] tname = "str" -> StrV(vals[1])
      [] tname = "unicode" -> StrV(vals[1])
      [] OTHER -> Raise("KeyError")

\* do_show: self._params.setdefault(pinfo["name"], None) for every pinfo
ShowSetDefault(params, code) ==
    [n \in (DOMAIN params) \cup Declared(code) |->
        IF n \in DOMAIN params THEN params[n] ELSE NoneV]

\* _print_unset_fields: the paths it warns about, each a sequence of names
\* (printed joined by "."); has_unset is that some path is printed.  The
\* recursive call passes k + "." as the path.
RECURSIVE PrintUnsetFields(_, _)
PrintUnsetFields(params, path) ==
    UNION { IF IsDict(params[key])
            THEN PrintUnsetFields(params[key].d["params"].d, <<key>>)
            ELSE IF params[key] = NoneV THEN {path \o <<key>>} ELSE {} :
            key \in DOMAIN params }

\* a _validate_fields that accepts whatever is unset without asking
ValidateFieldsAlways(params, ans) == TRUE

\* _validate_fields, given the answer to "Are you fine with these fields
\* being unset?"
ValidateFields(params, ans) ==
    IF PrintUnsetFields(params, << >>) # {} THEN ans = "y" ELSE TRUE


(***************************************************************************)
(* SpecEntity: an entity under instantiate, set, clear_id and serialize    *)
(***************************************************************************)
TxtN == <<"n">>
TxtFuzz == <<"f", "z">>
Txt150 == <<"1", "5", "0">>
TxtW == <<"w">>
IdT1 == <<"t", "1">>
IdJ1 == <<"j", "1">>
OidX == <<"x">>

\* the wire shapes of a reference
RefShapes ==
    { NoneV,
      StrV(IdT1),
      DictV([id |-> StrV(IdT1), name |-> StrV(TxtN)]),
      DictV(("_id" :> DictV(("$oid" :> StrV(OidX))))),
      DictV(("$id" :> DictV(("$oid" :> StrV(OidX))))),
      DictV(("id" :> StrV(IdT1)) @@ ("_id" :> DictV(("$oid" :> StrV(OidX))))),
      DictV([name |-> StrV(TxtN)]) }

\* a payload key that is not given
Absent == [k |-> "absent"]

\* the payload holding the given keys of `full`
Given(full) == [key \in {x \in DOMAIN full : full[x] # Absent} |-> full[key]]

\* raw payloads of a job; "extra" is a key the schema does not declare
JobPayloads ==
    { Given([name |-> n, task |-> t, priority |-> p, progress |-> g, id |-> i, extra |-> e]) :
        n \in {Absent, StrV(TxtFuzz), NoneV},
        t \in {Absent} \cup RefShapes,
        p \in {Absent, IntV(7)},
        g \in {Absent, IntV(3)},
        i \in {Absent, StrV(IdJ1)},
        e \in {Absent, StrV(TxtN), NoneV} }

OSPayloads ==
    { Given([name |-> n, type |-> t, id |-> i, extra |-> e]) :
        n \in {Absent, StrV(TxtFuzz), NoneV},
        t \in {Absent, StrV(TxtW)},
        i \in {Absent, StrV(IdJ1)},
        e \in {Absent, StrV(TxtN), NoneV} }

Payloads(cname) == IF cname = "Job" THEN JobPayloads ELSE OSPayloads

PayloadKeys(cname) == (DOMAIN ClassFields(cname)) \cup {"id", "extra"}

\* the values the commands and the api assign to a field
AssignVals(key) ==
    CASE key = "name" -> {StrV(TxtN)}
      [] key = "task" -> {StrV(IdT1)}
      [] key = "priority" -> {IntV(7), IntV(150), StrV(Txt150)}
      [] key = "progress" -> {IntV(0)}
      [] key = "type" -> {StrV(TxtW), StrV(TxtN)}
      [] key = "id" -> {StrV(IdJ1)}
      [] key = "extra" -> {NoneV}
      [] OTHER -> {}

Exists == DOMAIN ent # {}

EInit ==
    /\ ent = EmptyDict
    /\ schemaName \in {"Job", "OS"}
    /\ copy = EmptyDict
    /\ elast = [op |-> "none"]
    /\ model = EmptyDict
    /\ stack = << >>
    /\ phase = "off"
    /\ requests = << >>
    /\ last = [op |-> "none"]
    /\ ncmd = 0
    /\ dur = [op |-> "off"]
    /\ heap = [op |-> "off"]
    /\ ref = [op |-> "off"]
    /\ store = << >>
    /\ leaf = [op |-> "off"]

\* cls(**payload): the construction of the entity
Instantiate ==
    \E p \in Payloads(schemaName) :
        /\ ~Exists
        /\ ent' = ModelInit(ClassFields(schemaName), p)
        /\ copy' = EmptyDict
        /\ elast' = [op |-> "instantiate", payload |-> p]
        /\ UNCHANGED <<schemaName, nonEntity>>

\* model.<key> = value
SetAttr ==
    \E key \in PayloadKeys(schemaName) : \E value \in AssignVals(key) :
        /\ Exists
        /\ ent' = ModelSetAttr(ent, key, value)
        /\ copy' = EmptyDict
        /\ elast' = [op |-> "set", key |-> key, value |-> value, before |-> ent]
        /\ UNCHANGED <<schemaName, nonEntity>>

\* model.clear_id()
ClearId ==
    /\ Exists
    /\ ent' = ModelClearId(ent)
    /\ copy' = EmptyDict
    /\ elast' = [op |-> "clear_id"]
    /\ UNCHANGED <<schemaName, nonEntity>>

\* cls(**model._filtered_fields())
Reinstantiate ==
    /\ Exists
    /\ elast.op # "reinstantiate"
    /\ copy' = ModelInit(ClassFields(schemaName), FilteredFields(ent))
    /\ elast' = [op |-> "reinstantiate", payload |-> FilteredFields(ent)]
    /\ UNCHANGED <<ent, schemaName, nonEntity>>

ENext == Instantiate \/ SetAttr \/ ClearId \/ Reinstantiate

SpecEntity == EInit /\ [][ENext]_vars

(***************************************************************************)
(* Properties of the entity                                                *)
(***************************************************************************)
\* C3: an entity instantiated from the serialized payload of an entity holds,
\* for every key whose resolved value in that entity is not null, the same
\* resolved value, whatever payload the first one was instantiated from
\* (nested-object and broken-reference shapes, undeclared keys) and whatever
\* was assigned to it since.
C3_RoundTrip ==
    elast.op = "reinstantiate" =>
        \A key \in DOMAIN ent :
            GetVal(ent[key]) # NoneV =>
                key \in DOMAIN copy /\ GetVal(copy[key]) = GetVal(ent[key])

C3_Witness ==
    /\ elast.op = "reinstantiate"
    /\ "task" \in DOMAIN ent
    /\ HasKey(ent["task"].value, "_id")
    /\ ~HasKey(ent["task"].value, "id")
    /\ "extra" \in DOMAIN ent
    /\ ent["extra"].value # NoneV
    /\ "extra" \in DOMAIN copy

\* C4: the serialized payload holds no key whose resolved value is null and
\* holds every key of the entity whose resolved value is not null, with
\* that value.
C4_SerializeDropsExactlyNull ==
    elast.op = "reinstantiate" =>
        /\ \A key \in DOMAIN elast.payload :
              key \in DOMAIN ent /\ elast.payload[key] # NoneV
        /\ \A key \in DOMAIN ent :
              GetVal(ent[key]) # NoneV =>
                  key \in DOMAIN elast.payload /\ elast.payload[key] = GetVal(ent[key])

C4_Witness ==
    /\ elast.op = "reinstantiate"
    /\ "id" \notin DOMAIN ent
    /\ \E key \in DOMAIN ent : GetVal(ent[key]) = NoneV
    /\ \E key \in DOMAIN ent : ent[key].cls = "Field" /\ ent[key].value = StrV(<< >>)
    /\ \E key \in DOMAIN ent : ent[key].cls = "RefField" /\ GetVal(ent[key]) # NoneV

\* what the field's declaration makes of an assigned value: rejected when
\* the cast raises or the validator answers false
RejectedBy(fd, value) ==
    LET c == FieldCast(fd, value)
    IN  c.k = "raise" \/ ~FieldValidate(fd, c)

\* C5: a set of a declared field with a value its validator rejects leaves
\* the field's value as it was (here: by direct assignment on the entity).
C5_RejectedSetKeepsValue ==
    ( /\ elast.op = "set"
      /\ elast.key \in DOMAIN ClassFields(schemaName)
      /\ RejectedBy(ClassFields(schemaName)[elast.key], elast.value) )
    => ent[elast.key] = elast.before[elast.key]
\* the default a declaration gives its field (a RefField is declared
\* without default value)
DeclDefault(fd) == IF fd.cls = "RefField" THEN NoneV ELSE fd.default

\* C16: the entity instantiated from a payload has the keys of the schema
\* and of the payload; every payload key holds the payload's value (a
\* reference resolving as that value resolves), every other schema key holds
\* the declared default; and {name: "fuzz"} alone is serialized with the
\* name and the default priority 50.
C16_InstantiateOverlaysDefaults ==
    elast.op = "instantiate" =>
        LET schema == ClassFields(schemaName)
            payload == elast.payload
        IN  /\ DOMAIN ent = (DOMAIN schema) \cup (DOMAIN payload)
            /\ \A key \in DOMAIN payload :
                  /\ ent[key].value = payload[key]
                  /\ GetVal(ent[key]) =
                        IF key \in DOMAIN schema /\ schema[key].cls = "RefField"
                        THEN RefFieldGetVal(payload[key])
                        ELSE payload[key]
            /\ \A key \in (DOMAIN schema) \ (DOMAIN payload) :
                  GetVal(ent[key]) = DeclDefault(schema[key])
            /\ (schemaName = "Job" /\ payload = [name |-> StrV(TxtFuzz)]) =>
                  /\ FilteredFields(ent)["name"] = StrV(TxtFuzz)
                  /\ FilteredFields(ent)["priority"] = IntV(50)

C16_Witness ==
    /\ elast.op = "instantiate"
    /\ schemaName = "Job"
    /\ DOMAIN elast.payload = {"name", "extra"}
    /\ ent["extra"].value = StrV(TxtN)
    /\ GetVal(ent["name"]) = StrV(TxtFuzz)
    /\ GetVal(ent["priority"]) = IntV(50)

\* C17: after an assignment to a declared field whose default is not null,
\* the field holds a value of the runtime type of that default.
C17_ValuesKeepDefaultType ==
    ( /\ elast.op = "set"
      /\ elast.key \in DOMAIN ClassFields(schemaName)
      /\ DeclDefault(ClassFields(schemaName)[elast.key]) # NoneV )
    => ent[elast.key].value.k = DeclDefault(ClassFields(schemaName)[elast.key]).k

(***************************************************************************)
(* SpecResolver: RefField.get_val applied to a reference value, and again  *)
(* to what it returned                                                     *)
(***************************************************************************)
\* the forms a raw datastore identifier ("_id" or "$id") comes in
RawIdForms ==
    { Absent,
      DictV(("$oid" :> StrV(OidX))),
      DictV(EmptyDict),
      StrV(OidX) }

\* the values a RefField holds: nothing, an identifier, an identifier that
\* get_val marked, and objects with every combination of the keys
RefInputs ==
    { NoneV, StrV(IdT1), StrV(Bang \o OidX) } \cup
    { DictV(Given(("id" :> i) @@ ("_id" :> u) @@ ("$id" :> d) @@ ("name" :> n))) :
        i \in {Absent, StrV(IdT1), NoneV},
        u \in RawIdForms,
        d \in RawIdForms,
        n \in {Absent, StrV(TxtN)} }

RInit ==
    /\ ref \in { [op |-> "none", in |-> x] : x \in RefInputs }
    /\ ent = EmptyDict
    /\ schemaName = "Job"
    /\ copy = EmptyDict
    /\ elast = [op |-> "none"]
    /\ model = EmptyDict
    /\ stack = << >>
    /\ phase = "off"
    /\ requests = << >>
    /\ last = [op |-> "none"]
    /\ ncmd = 0
    /\ dur = [op |-> "off"]
    /\ heap = [op |-> "off"]
    /\ store = << >>
    /\ leaf = [op |-> "off"]

\* field.get_val(); an exception leaves no result
Resolve ==
    /\ ref.op = "none"
    /\ ref' = [op |-> "resolve", in |-> ref.in, out |-> RefFieldGetVal(ref.in)]
    /\ UNCHANGED nonResolver

\* RefField(...).get_val() on a field holding the value get_val returned
ResolveAgain ==
    /\ ref.op = "resolve"
    /\ ref.out.k # "raise"
    /\ ref' = [op |-> "again", in |-> ref.in, out |-> ref.out,
               again |-> RefFieldGetVal(ref.out)]
    /\ UNCHANGED nonResolver

RNext == Resolve \/ ResolveAgain

SpecResolver == RInit /\ [][RNext]_vars

\* an object's raw datastore identifier is an object holding a text "$oid"
WellFormedRaw(v, key) ==
    HasKey(v, key) => (HasKey(v.d[key], "$oid") /\ v.d[key].d["$oid"].k = "str")

\* C12: resolving returns a result for every shape of value, whatever form
\* its "_id" or "$id" has.
C12_ResolveNeverRaises ==
    ref.op = "resolve" => ref.out.k # "raise"

\* C13: an identifier string resolves to itself, an object with "id" to
\* that id (whatever raw identifier it carries besides), an object with only
\* a raw identifier to "!" followed by the identifier ("_id" before "$id"),
\* and nothing to nothing.
C13_ResolveByShape ==
    ref.op = "resolve" =>
        LET v == ref.in
            raw == IF HasKey(v, "_id") THEN "_id" ELSE "$id"
        IN  /\ v = NoneV => ref.out = NoneV
            /\ v.k = "str" => ref.out = v
            /\ HasKey(v, "id") => ref.out = v.d["id"]
            /\ ( /\ ~HasKey(v, "id")
                 /\ HasKey(v, raw)
                 /\ WellFormedRaw(v, raw) )
               => /\ ref.out.k = "str"
                  /\ Head(ref.out.s) = "!"
                  /\ Tail(ref.out.s) = v.d[raw].d["$oid"].s

C13_Witness ==
    /\ ref.op = "resolve"
    /\ ~HasKey(ref.in, "id")
    /\ ~HasKey(ref.in, "_id")
    /\ HasKey(ref.in, "$id")
    /\ HasKey(ref.in, "name")
    /\ ref.out = StrV(Bang \o OidX)

\* C14: resolving what resolving returned returns it again: an identifier,
\* a marked identifier, nothing and an object without identifier are each
\* resolved to themselves.
C14_ResolveIdempotent ==
    ref.op = "again" => ref.again = ref.out

C14_Witness ==
    /\ ref.op = "again"
    /\ HasKey(ref.in, "_id")
    /\ ref.out = StrV(Bang \o OidX)
    /\ ref.again = ref.out

(***************************************************************************)
(* SpecStore: an entity found in the Entity Store, cleared of its          *)
(* identifier, assigned to and saved (models.py save, jobs.py do_clone)    *)
(***************************************************************************)
\* how many save requests one run sends
MaxSaves == 3

\* the identifier the store gives its n-th record
RecordId(n) == StrV(<<"j">> \o NatText(n))

\* the record the store holds at first, as the api returns it
FirstRecords ==
    { [id |-> RecordId(1), name |-> n, priority |-> p, progress |-> g] :
        n \in {StrV(TxtN), StrV(TxtFuzz)},
        p \in {IntV(7), IntV(50)},
        g \in {IntV(3), IntV(0)} }

\* what do_clone and the commands assign between two saves
StoreAssignVals(key) ==
    CASE key = "name" -> {StrV(TxtN), StrV(TxtFuzz)}
      [] key = "progress" -> {IntV(0)}
      [] OTHER -> {}

SInit ==
    /\ \E r \in FirstRecords :
          /\ store = <<r>>
          /\ ent = ModelInit(JobFields, r)
    /\ schemaName = "Job"
    /\ copy = EmptyDict
    /\ elast = [op |-> "find"]
    /\ requests = << >>
    /\ model = EmptyDict
    /\ stack = << >>
    /\ phase = "off"
    /\ last = [op |-> "none"]
    /\ ncmd = 0
    /\ dur = [op |-> "off"]
    /\ heap = [op |-> "off"]
    /\ ref = [op |-> "off"]
    /\ leaf = [op |-> "off"]

\* job.clear_id()
StoreClearId ==
    /\ ent' = ModelClearId(ent)
    /\ elast' = [op |-> "clear_id"]
    /\ UNCHANGED <<requests, store, nonStore>>

\* job.name = ..., job.progress = 0
StoreAssign ==
    \E key \in {"name", "progress"} : \E value \in StoreAssignVals(key) :
        /\ ent' = ModelSetAttr(ent, key, value)
        /\ elast' = [op |-> "set"]
        /\ UNCHANGED <<requests, store, nonStore>>

\* the index of the record whose identifier is id (0: none)
RecordOf(id) ==
    IF \E i \in 1..Len(store) : store[i]["id"] = id
    THEN CHOOSE i \in 1..Len(store) : store[i]["id"] = id
    ELSE 0

\* the status codes the store answers with
Statuses == {200, 404, 500}

\* a client that takes every answer for a success
StatusOkAny(status) == TRUE

\* res.status_code // 100 != 2 raises
StatusOk(status) == status \div 100 = 2

\* what is left of a record the store has deleted
Tombstone == ("id" :> NoneV)

\* save(): PUT to the identifier's url when _fields holds "id", else POST;
\* a 2xx response is populated into the entity, anything else raises
Save ==
    \E status \in Statuses :
        LET data == FilteredFields(ent)
            put == "id" \in DOMAIN ent
            target == IF put THEN GetVal(ent["id"]) ELSE NoneV
            idx == RecordOf(target)
            created == ("id" :> RecordId(Len(store) + 1)) @@ data
            accepted == StatusOk(status)
        IN  /\ Len(requests) < MaxSaves
            /\ (put /\ idx = 0) => status = 404
            /\ requests' = Append(requests,
                   [method |-> IF put THEN "PUT" ELSE "POST", id |-> target, data |-> data])
            /\ IF accepted /\ put /\ idx # 0 THEN
                   /\ store' = [store EXCEPT ![idx] = data]
                   /\ ent' = Populate(JobFields, data)
                   /\ elast' = [op |-> "save", ok |-> TRUE, status |-> status,
                                exc |-> "none"]
               ELSE IF accepted /\ ~put THEN
                   /\ store' = Append(store, created)
                   /\ ent' = Populate(JobFields, created)
                   /\ elast' = [op |-> "save", ok |-> TRUE, status |-> status,
                                exc |-> "none"]
               ELSE
                   /\ elast' = [op |-> "save", ok |-> FALSE, status |-> status,
                                exc |-> "TalusApiError"]
                   /\ UNCHANGED <<ent, store>>
            /\ UNCHANGED nonStore

\* delete(): DELETE to the identifier's url; a 2xx response empties _fields,
\* anything else raises; without identifier _id_url raises KeyError before
\* anything is sent
Delete ==
    IF "id" \notin DOMAIN ent THEN
        /\ elast' = [op |-> "delete", ok |-> FALSE, status |-> 0, exc |-> "KeyError"]
        /\ UNCHANGED <<ent, store, requests, nonStore>>
    ELSE
        \E status \in Statuses :
            LET target == GetVal(ent["id"])
                idx == RecordOf(target)
            IN  /\ Len(requests) < MaxSaves
                /\ idx = 0 => status = 404
                /\ requests' = Append(requests,
                       [method |-> "DELETE", id |-> target, data |-> EmptyDict])
                /\ IF StatusOk(status) THEN
                       /\ store' = IF idx = 0 THEN store
                                   ELSE [store EXCEPT ![idx] = Tombstone]
                       /\ ent' = EmptyDict
                       /\ elast' = [op |-> "delete", ok |-> TRUE, status |-> status,
                                    exc |-> "none"]
                   ELSE
                       /\ elast' = [op |-> "delete", ok |-> FALSE, status |-> status,
                                    exc |-> "TalusApiError"]
                       /\ UNCHANGED <<ent, store>>
                /\ UNCHANGED nonStore

SNext == StoreClearId \/ StoreAssign \/ Save \/ Delete

SpecStore == SInit /\ [][SNext]_vars

\* C15: clear_id removes the identifier; a save of an entity without
\* identifier is a POST that leaves every record of the store as it was and,
\* once accepted, gives the entity the new record's identifier; a save of an
\* entity with an identifier is a PUT to that identifier which changes no
\* other record; nothing but clear_id takes the identifier away.
C15_ClearedEntityIsCreatedThenUpdated ==
    [][ /\ elast'.op = "clear_id" => "id" \notin DOMAIN ent'
        /\ elast'.op = "set" => (("id" \in DOMAIN ent') <=> ("id" \in DOMAIN ent))
        /\ elast'.op = "save" =>
             LET rq == requests'[Len(requests')]
             IN  /\ Len(requests') = Len(requests) + 1
                 /\ rq.method = (IF "id" \in DOMAIN ent THEN "PUT" ELSE "POST")
                 /\ \A i \in 1..Len(store) :
                        store'[i] # store[i] =>
                            rq.method = "PUT" /\ rq.id = store[i]["id"]
                 /\ (rq.method = "POST" /\ elast'.ok) =>
                        /\ Len(store') = Len(store) + 1
                        /\ "id" \in DOMAIN ent'
                        /\ GetVal(ent'["id"]) = RecordId(Len(store'))
                        /\ store'[Len(store')]["id"] = RecordId(Len(store'))
                 /\ (rq.method = "PUT") =>
                        /\ rq.id = GetVal(ent["id"])
                        /\ Len(store') = Len(store)
                        /\ "id" \in DOMAIN ent'
                        /\ GetVal(ent'["id"]) = rq.id
      ]_vars

C15_Witness ==
    /\ Len(requests) = 3
    /\ requests[1].method = "POST"
    /\ requests[2].method = "PUT"
    /\ requests[2].id = RecordId(2)
    /\ requests[3].method = "PUT"
    /\ requests[3].id = RecordId(2)
    /\ Len(store) = 2
    /\ store[1] \in FirstRecords
    /\ store[2]["name"] # store[1]["name"]

\* C30: a save or delete the store answers with a status that is no success
\* raises and leaves the entity's values, identifier included, as they were;
\* a save changes the values only when it succeeded, and then to the record
\* the store answered with; the values are cleared by a successful delete
\* and by nothing else.
C30_RefusedSaveOrDeleteChangesNothing ==
    [][ /\ ( /\ elast'.op \in {"save", "delete"}
             /\ elast'.status # 0
             /\ elast'.status \div 100 # 2 )
          => /\ elast'.exc = "TalusApiError"
             /\ ent' = ent
        /\ (elast'.op = "save" /\ ent' # ent) => elast'.status \div 100 = 2
        /\ (elast'.op = "save" /\ elast'.status \div 100 = 2)
          => \E i \in 1..Len(store') : ent' = Populate(JobFields, store'[i])
        /\ (elast'.op = "delete" /\ elast'.status \div 100 = 2) => ent' = EmptyDict
        /\ (ent' = EmptyDict /\ ent # EmptyDict)
          => (elast'.op = "delete" /\ elast'.status \div 100 = 2)
      ]_vars

C30_Witness ==
    /\ Len(requests) = 3
    /\ requests[1].method = "PUT"
    /\ requests[2].method = "DELETE"
    /\ requests[3].method = "DELETE"
    /\ elast.op = "delete" /\ elast.status = 200
    /\ ent = EmptyDict
    /\ store = <<Tombstone>>

(***************************************************************************)
(* SpecLeaf: ParameterCmd.do_set on a parameter of each native type        *)
(***************************************************************************)
T7 == <<"7">>
Tx == <<"x">>
TxtChars == <<"0", "1", "3", "+", "-", "(", ")", "/", "*">>

\* the params of a code model with one parameter of each type of the switch
LeafParams ==
    [ l |-> PInfo("native", "list"),
      t |-> PInfo("native", "tuple"),
      i |-> PInfo("native", "int"),
      f |-> PInfo("native", "float"),
      s |-> PInfo("native", "str"),
      u |-> PInfo("native", "unicode") ]

\* what follows the parameter's name on the `set` line
LeafArgLists ==
    { << >>, <<T7>>, <<Tx>>, <<TxtChars>>, <<T7, Tx>>, <<Tx, T7, T7>> }

\* the mapping before the command
LeafTrees ==
    { EmptyDict,
      [i |-> IntV(1)],
      [s |-> StrV(Tx), l |-> ListV(<<StrV(T7)>>), f |-> NoneV],
      [l |-> NoneV, t |-> NoneV, i |-> NoneV, f |-> NoneV, s |-> NoneV, u |-> NoneV] }

LInit ==
    /\ leaf \in { [op |-> "none", params |-> tr, name |-> n, args |-> a] :
                    tr \in LeafTrees, n \in (DOMAIN LeafParams) \cup {"nosuch"},
                    a \in LeafArgLists }
    /\ ent = EmptyDict
    /\ schemaName = "Job"
    /\ copy = EmptyDict
    /\ elast = [op |-> "none"]
    /\ model = EmptyDict
    /\ stack = << >>
    /\ phase = "off"
    /\ requests = << >>
    /\ last = [op |-> "none"]
    /\ ncmd = 0
    /\ dur = [op |-> "off"]
    /\ heap = [op |-> "off"]
    /\ ref = [op |-> "off"]
    /\ store = << >>

\* do_set <name> <args...> on a parameter that is neither fileset nor component
LeafSet ==
    /\ leaf.op = "none"
    /\ leaf' =
         IF leaf.name \notin DOMAIN LeafParams \/ Len(leaf.args) < 1
         THEN [leaf EXCEPT !.op = "set"] @@ [outcome |-> "error", out |-> leaf.params]
         ELSE LET v == ConvertVal(LeafParams[leaf.name].name, leaf.args)
              IN  IF v.k = "raise"
                  THEN [leaf EXCEPT !.op = "set"] @@ [outcome |-> "crash", out |-> leaf.params]
                  ELSE [leaf EXCEPT !.op = "set"] @@
                       [outcome |-> "ok", out |-> (leaf.name :> v) @@ leaf.params]
    /\ UNCHANGED nonLeaf

\* do_show after the command
LeafShow ==
    /\ leaf.op = "set"
    /\ leaf.outcome # "crash"
    /\ leaf' = [leaf EXCEPT !.op = "show",
                            !.out = [n \in (DOMAIN leaf.out) \cup (DOMAIN LeafParams) |->
                                        IF n \in DOMAIN leaf.out THEN leaf.out[n] ELSE NoneV]]
    /\ UNCHANGED nonLeaf

LNext == LeafSet \/ LeafShow

SpecLeaf == LInit /\ [][LNext]_vars

\* the tokens as Python strings
Tokens(args) == [n \in 1..Len(args) |-> StrV(args[n])]

\* C18: a `set` that succeeds stores, for a list or tuple parameter, all the
\* tokens as one sequence and, for an int, float, str or unicode parameter,
\* the conversion of the first token alone ("013+-()/*" stays one string);
\* every other parameter of the mapping is as it was.
C18_SetLeafStoresConversion ==
    (leaf.op = "set" /\ leaf.outcome = "ok") =>
        LET tname == LeafParams[leaf.name].name
            v == leaf.out[leaf.name]
        IN  /\ tname = "list" => v = ListV(Tokens(leaf.args))
            /\ tname = "tuple" => v = [k |-> "tuple", l |-> Tokens(leaf.args)]
            /\ tname \in {"str", "unicode"} => v = StrV(leaf.args[1])
            /\ (tname = "int" /\ leaf.args[1] = T7) => v = IntV(7)
            /\ (tname = "float" /\ leaf.args[1] = T7) => v = [k |-> "float", n |-> 7]
            /\ tname \in {"int", "float"} => leaf.args[1] = T7
            /\ DOMAIN leaf.out = (DOMAIN leaf.params) \cup {leaf.name}
            /\ \A key \in (DOMAIN leaf.params) \ {leaf.name} :
                  leaf.out[key] = leaf.params[key]

C18_Witness ==
    /\ leaf.op = "set"
    /\ leaf.outcome = "ok"
    /\ leaf.name = "s"
    /\ leaf.args = <<TxtChars>>
    /\ leaf.params = [s |-> StrV(Tx), l |-> ListV(<<StrV(T7)>>), f |-> NoneV]
    /\ leaf.out["s"] = StrV(TxtChars)
    /\ leaf.out["l"] = ListV(<<StrV(T7)>>)

(***************************************************************************)
(* Spec: a create/edit command running nested editors                      *)
(*                                                                         *)
(* Only the innermost command loop runs.  A parameter dictionary a child   *)
(* loop edits in place is held by the child's frame and bound to the       *)
(* parent's slot when the child's cmdloop() returns.                       *)
(***************************************************************************)
\* how often the Entity Store may refuse a save
MaxSaveFailures == 1

\* how many command lines the editors read in one run of a create/edit command
MaxCommands == 7

\* what follows the field name on a `set` line, after shlex.split
ModelArgLists == { << >>, <<T7>>, <<Txt150>>, <<Tx>>, <<TxtW>> }
ParamArgLists == { << >>, <<T7>>, <<Tx>> }

Top == stack[Len(stack)]
Editing == phase = "editing" /\ stack # << >>
InModelCmd == Editing /\ Top.ed = "model"
InParameterCmd == Editing /\ Top.ed = "param"

\* cmd.Cmd.cmdloop reads one line at the prompt of the innermost editor
ReadLine == ncmd < MaxCommands /\ ncmd' = ncmd + 1

\* a return that unwinds every running loop
FrontNone(q) == << >>

Front(q) == SubSeq(q, 1, Len(q) - 1)

ModelFrame(code) == [ed |-> "model", code |-> code]
ParamFrame(params, code, slot, was) ==
    [ed |-> "param", params |-> params, code |-> code, slot |-> slot, was |-> was]

\* a cmdloop that swallows the KeyboardInterrupt and returns None
CmdloopNeverCancelled(how) == FALSE

\* TalusCmdBase.cmdloop: True after a KeyboardInterrupt, else cmd.Cmd.cmdloop's None
CmdloopCancelled(how) == how = "interrupt"

\* a ModelCmd that binds its ParameterCmd to one tool whatever the entity says
CodeOfModelFixed(cls, flds) == "ToolA"

\* the code model ModelCmd binds its ParameterCmd to
CodeOfModel(cls, flds) ==
    CASE cls = "Job" -> Tasks[SymName(GetVal(flds["task"]))].tool
      [] cls = "Task" -> SymName(GetVal(flds["tool"]))
      [] OTHER -> "none"

\* _update_code_and_param_cmd: ParameterCmd(self._model.params, code) deletes
\* in place the parameters the code does not declare
UpdateCodeAndParamCmd(cls, flds) ==
    IF cls \in {"Job", "Task"}
    THEN ModelSetAttr(flds, "params",
             DictV(ParameterCmdInit(GetVal(flds["params"]).d, CodeOfModel(cls, flds))))
    ELSE \* self._param_cmd = None
         flds

\* JobCmd.do_create: the job based on the chosen task
NewJob(t) ==
    LET j0 == ModelInit(JobFields, EmptyDict)
        j1 == ModelSetAttr(j0, "image", Tasks[t].image)
        j2 == ModelSetAttr(j1, "task", Sym(t))
        j3 == ModelSetAttr(j2, "name", Sym(t))
    IN  ModelSetAttr(j3, "params", DictV(Tasks[t].params))

\* Task(**item) for a task of the store
StoredTask(t) ==
    Populate(TaskFields,
        [id |-> Sym(t), name |-> Sym(t), tool |-> Sym(Tasks[t].tool),
         params |-> DictV(Tasks[t].params)])

\* OSCmd.do_create: OS()
NewOS == ModelInit(OSFields, EmptyDict)

\* Image(**item) for the image of the store
StoredImage ==
    Populate(ImageFields,
        [id |-> Sym("i1"), name |-> Sym("i1"), os |-> Sym("o1"), base_image |-> Sym("i0")])

\* an exception no handler catches ends the process
Crash ==
    /\ phase' = "crashed"
    /\ stack' = << >>
    /\ UNCHANGED <<model, requests>>

\* _make_model_cmd(model): a new ModelCmd on the entity
OpenModelCmd(cls, flds) ==
    /\ model' = [cls |-> cls, f |-> UpdateCodeAndParamCmd(cls, flds)]
    /\ stack' = <<ModelFrame(CodeOfModel(cls, flds))>>
    /\ phase' = "editing"

Init ==
    /\ ent = EmptyDict
    /\ schemaName = "Job"
    /\ copy = EmptyDict
    /\ elast = [op |-> "none"]
    /\ model = [cls |-> "none", f |-> EmptyDict]
    /\ stack = << >>
    /\ phase = "idle"
    /\ requests = << >>
    /\ last = [op |-> "none", ed |-> "none"]
    /\ ncmd = 0
    /\ dur = [op |-> "off"]
    /\ heap = [op |-> "off"]
    /\ ref = [op |-> "off"]
    /\ store = << >>
    /\ leaf = [op |-> "off"]

\* `job create` in the shell: JobCmd.do_create up to the first prompt of the editor
StartJobCreate ==
    \E t \in (DOMAIN Tasks) \cup {"q"} :
        /\ phase = "idle"
        /\ last' = [op |-> "start", ed |-> "none"]
        /\ IF t = "q"
           THEN phase' = "finished" /\ UNCHANGED <<model, stack>>
           ELSE OpenModelCmd("Job", NewJob(t))
        /\ UNCHANGED <<requests, ncmd, nonEditor>>

\* `task edit <t>`: TaskCmd.do_edit and _interactive_loop up to the first prompt
StartTaskEdit ==
    \E t \in DOMAIN Tasks :
        /\ phase = "idle"
        /\ last' = [op |-> "start", ed |-> "none"]
        /\ OpenModelCmd("Task", StoredTask(t))
        /\ UNCHANGED <<requests, ncmd, nonEditor>>

\* the checks a create/edit command makes before it saves the entity
RequiredMissing(cls, flds) ==
    CASE cls = "Job" ->
            GetVal(flds["name"]) = NoneV \/ GetVal(flds["image"]) = NoneV
      [] cls = "OS" ->
            \/ GetVal(flds["name"]) \in {NoneV, StrV(<< >>)}
            \/ GetVal(flds["type"]) = NoneV
            \/ ~RunValidation("os_type", GetVal(flds["type"]))
      [] cls = "Image" ->
            \/ GetVal(flds["os"]) = NoneV
            \/ GetVal(flds["name"]) \in {NoneV, StrV(<< >>)}
            \/ GetVal(flds["base_image"]) = NoneV

\* the identifier the store gives an entity it creates
CreatedId(cls) ==
    CASE cls = "Job" -> Sym("j1") [] cls = "OS" -> Sym("o9") [] OTHER -> Sym("i9")

\* what the command does once save() has raised TalusApiError: the loops of
\* JobCmd.do_create and OSCmd.do_create go round (break only in the else
\* clause), those of ImageCmd.do_edit / do_create return after the except
ReopensAfterRejection(cls) == cls \in {"Job", "OS"}

\* `os create` in the shell: OSCmd.do_create up to the first prompt
StartOSCreate ==
    /\ phase = "idle"
    /\ last' = [op |-> "start", ed |-> "none"]
    /\ OpenModelCmd("OS", NewOS)
    /\ UNCHANGED <<requests, ncmd, nonEditor>>

\* `image edit i1`: ImageCmd.do_edit up to the first prompt
StartImageEdit ==
    /\ phase = "idle"
    /\ last' = [op |-> "start", ed |-> "none"]
    /\ OpenModelCmd("Image", StoredImage)
    /\ UNCHANGED <<requests, ncmd, nonEditor>>

\* the statements of the create/edit command after model_cmd.cmdloop()
AfterModelLoop(cancelled) ==
    IF cancelled THEN
        /\ phase' = "finished"
        /\ stack' = << >>
        /\ UNCHANGED <<model, requests>>
    ELSE IF model.cls = "Task" THEN
        \* _interactive_loop: task.is_existing() is no attribute and no field:
        \* __getattr__ raises KeyError, which the except clause does not catch
        Crash
    ELSE IF RequiredMissing(model.cls, model.f) THEN
        \* error, continue
        /\ OpenModelCmd(model.cls, model.f)
        /\ UNCHANGED requests
    ELSE
        \E ok \in BOOLEAN :
            /\ requests' = Append(requests,
                   [method |-> IF "id" \in DOMAIN model.f THEN "PUT" ELSE "POST",
                    ok |-> ok])
            /\ IF ok
               THEN /\ model' = [model EXCEPT !.f =
                           Populate(ClassFields(model.cls),
                               (IF "id" \in DOMAIN model.f THEN EmptyDict
                                ELSE ("id" :> CreatedId(model.cls)))
                               @@ FilteredFields(model.f))]
                    /\ phase' = "finished"
                    /\ stack' = << >>
               ELSE /\ Len(requests) < MaxSaveFailures
                    /\ IF ReopensAfterRejection(model.cls)
                       THEN OpenModelCmd(model.cls, model.f)
                       ELSE /\ phase' = "finished"
                            /\ stack' = << >>
                            /\ UNCHANGED model

\* the statement after the child's cmdloop() in the parent's handler
AfterParamLoop ==
    IF Top.slot = ""
    THEN \* ModelCmd.do_set, field "params": the dictionary edited is model.params
         /\ model' = [model EXCEPT !.f = ModelSetAttr(model.f, "params", DictV(Top.params))]
         /\ stack' = Front(stack)
         /\ UNCHANGED <<phase, requests>>
    ELSE \* _handle_set_component: self._params[field_name] = {"class": ..., "params": sub_params}
         /\ stack' = [Front(stack) EXCEPT ![Len(stack) - 1].params =
                         (Top.slot :> CompV(Top.code, Top.params)) @@ @]
         /\ UNCHANGED <<model, phase, requests>>
(***************************************************************************)
(* SpecDefaults: the list objects behind the `tags` field                  *)
(***************************************************************************)
MaxEntities == 3
MaxObjects == 5

\* the user of the session (self._talus_user) and one found in stored tags
SessionUser == "u1"
TagLists == { << >>, <<"u1">>, <<"u2">> }

\* the classes and the list object each one's Field([]) for `tags` holds;
\* heap.obj[a] is the content of the list object at address a
DefaultClasses == {"OS", "Job"}
DefaultAddr(cls) == IF cls = "OS" THEN 1 ELSE 2

\* Field.dup: self.__class__(self.get_val()) hands the new Field the very
\* object the class field holds
FieldDupValue(h, cls) == [obj |-> h.obj, addr |-> DefaultAddr(cls)]

\* the content of entity e's tags
TagsOf(h, e) == h.obj[h.ents[e].tags]

FInit ==
    /\ heap = [obj |-> << << >>, << >> >>, ents |-> << >>, op |-> [k |-> "none"]]
    /\ ent = EmptyDict
    /\ schemaName = "Job"
    /\ copy = EmptyDict
    /\ elast = [op |-> "none"]
    /\ model = EmptyDict
    /\ stack = << >>
    /\ phase = "off"
    /\ requests = << >>
    /\ last = [op |-> "none"]
    /\ ncmd = 0
    /\ ref = [op |-> "off"]
    /\ store = << >>
    /\ leaf = [op |-> "off"]
    /\ dur = [op |-> "off"]

\* cls(): no fields given, every class field is duplicated and populated
NewEntity ==
    \E cls \in DefaultClasses :
        /\ Len(heap.ents) < MaxEntities
        /\ Len(heap.obj) < MaxObjects
        /\ LET d == FieldDupValue(heap, cls)
           IN  heap' = [obj |-> d.obj,
                        ents |-> Append(heap.ents, [cls |-> cls, tags |-> d.addr]),
                        op |-> [k |-> "new", e |-> Len(heap.ents) + 1]]
        /\ UNCHANGED nonDefaults

\* cls(**item) for a record of the store: _populate duplicates the class
\* field and, when the record has `tags`, binds the record's own list
NewFromPayload ==
    \E cls \in DefaultClasses : \E has \in BOOLEAN : \E l \in TagLists :
        /\ Len(heap.ents) < MaxEntities
        /\ Len(heap.obj) < MaxObjects
        /\ has \/ l = << >>
        /\ LET d == FieldDupValue(heap, cls)
               obj == IF has THEN Append(d.obj, l) ELSE d.obj
               addr == IF has THEN Len(obj) ELSE d.addr
           IN  heap' = [obj |-> obj,
                        ents |-> Append(heap.ents, [cls |-> cls, tags |-> addr]),
                        op |-> [k |-> "load", e |-> Len(heap.ents) + 1]]
        /\ UNCHANGED nonDefaults

\* _prep_model: model.tags.append(user) unless the user is among the tags
PrepModel ==
    \E e \in 1..Len(heap.ents) :
        /\ \A i \in 1..Len(TagsOf(heap, e)) : TagsOf(heap, e)[i] # SessionUser
        /\ heap' = [heap EXCEPT !.obj[heap.ents[e].tags] = Append(@, SessionUser),
                                !.op = [k |-> "append", e |-> e]]
        /\ UNCHANGED nonDefaults

\* entity.tags = value: __setattr__ binds the value to the entity's own Field
AssignTags ==
    \E e \in 1..Len(heap.ents) : \E l \in TagLists :
        /\ Len(heap.obj) < MaxObjects
        /\ heap' = [obj |-> Append(heap.obj, l),
                    ents |-> [heap.ents EXCEPT ![e].tags = Len(heap.obj) + 1],
                    op |-> [k |-> "assign", e |-> e]]
        /\ UNCHANGED nonDefaults

FNext == NewEntity \/ NewFromPayload \/ PrepModel \/ AssignTags

SpecDefaults == FInit /\ [][FNext]_vars

\* C28: changing the tags of one entity in place changes neither the
\* default of the schema nor the tags of another entity, and a new entity
\* starts with the original default, the empty list.
C28_InPlaceChangeStaysLocal ==
    [][ /\ \A cls \in DefaultClasses : heap'.obj[DefaultAddr(cls)] = << >>
        /\ heap'.op.k = "append" =>
              \A e \in 1..Len(heap.ents) :
                  e # heap'.op.e => TagsOf(heap', e) = TagsOf(heap, e)
        /\ heap'.op.k = "new" => TagsOf(heap', heap'.op.e) = << >>
      ]_vars

(***************************************************************************)
(* --vm-max (api.py)                                                       *)
(***************************************************************************)
\* the number of digits of t from position i on
RECURSIVE DigitRun(_, _)
DigitRun(t, i) ==
    IF i <= Len(t) /\ t[i] \in Digits THEN 1 + DigitRun(t, i + 1) ELSE 0

\* the optional group (\d+u)? tried at position i: the characters it takes
GroupAt(t, i, u) ==
    LET n == DigitRun(t, i)
    IN  IF n > 0 /\ i + n <= Len(t) /\ t[i + n] = u THEN n + 1 ELSE 0

\* re.match(r'(\d+h)?(\d+m)?(\d+s)?', val): every group is optional and
\* nothing anchors the end, so there is a match for every text; a group that
\* did not take part is None
ReMatch(val) ==
    LET h == GroupAt(val, 1, "h")
        m == GroupAt(val, 1 + h, "m")
        s == GroupAt(val, 1 + h + m, "s")
        grp(i, n) == IF n = 0 THEN NoneV ELSE StrV(SubSeq(val, i, i + n - 1))
    IN  <<grp(1, h), grp(1 + h, m), grp(1 + h + m, s)>>

UnitMult(u) == CASE u = "h" -> 60 * 60 [] u = "m" -> 60 [] u = "s" -> 1

\* val * unit_mult[unit] of one group, 0 for a group that is None
GroupSeconds(item) ==
    IF item = NoneV THEN 0
    ELSE DigitsVal(SubSeq(item.s, 1, Len(item.s) - 1)) * UnitMult(item.s[Len(item.s)])

\* TalusClient._total_seconds_from_string
TotalSecondsFromString(val) ==
    LET match == ReMatch(val)
    IN  IF match # NoneV
        THEN IntV(GroupSeconds(match[1]) + GroupSeconds(match[2]) + GroupSeconds(match[3]))
        ELSE PyInt(val)

DurationChars == {"9", "0", "h", "m", "s"}
MaxDurationLen == 3

\* the texts given to --vm-max
DurationTexts ==
    UNION { [1..n -> DurationChars] : n \in 0..MaxDurationLen }
    \cup { <<"3", "0", "m", "1", "5", "s">>, <<"4", "5", "m", "1", "0", "s">>,
           <<"3", "0", "m">>, <<"1", "h", "3", "0", "m", "1", "5", "s">> }

DInit ==
    /\ dur \in { [op |-> "none", val |-> t] : t \in DurationTexts }
    /\ ent = EmptyDict
    /\ schemaName = "Job"
    /\ copy = EmptyDict
    /\ elast = [op |-> "none"]
    /\ model = EmptyDict
    /\ stack = << >>
    /\ phase = "off"
    /\ requests = << >>
    /\ last = [op |-> "none"]
    /\ ncmd = 0
    /\ ref = [op |-> "off"]
    /\ store = << >>
    /\ leaf = [op |-> "off"]
    /\ heap = [op |-> "off"]

\* task_create: task.vm_max = self._total_seconds_from_string(vm_max)
TaskCreateVmMax ==
    /\ dur.op = "none"
    /\ dur' = [op |-> "task", val |-> dur.val, out |-> TotalSecondsFromString(dur.val)]
    /\ UNCHANGED nonDuration

\* job_create with a --vm-max text: vm_max = self._total_seconds_from_string(vm_max)
JobCreateVmMax ==
    /\ dur.op = "none"
    /\ dur' = [op |-> "job", val |-> dur.val, out |-> TotalSecondsFromString(dur.val)]
    /\ UNCHANGED nonDuration

DNext == TaskCreateVmMax \/ JobCreateVmMax

SpecDuration == DInit /\ [][DNext]_vars

\* C23: a --vm-max text without units is that number of seconds, and
\* "30m15s" is 1815 seconds.
C23_UnitlessTextIsSeconds ==
    dur.op \in {"task", "job"} =>
        /\ AllDigits(dur.val) => dur.out = IntV(DigitsVal(dur.val))
        /\ dur.val = <<"3", "0", "m", "1", "5", "s">> => dur.out = IntV(1815)

(***************************************************************************)
(* ModelCmd's commands                                                     *)
(***************************************************************************)
\* the fields of the entity `set` casts from text
ScalarFields(cls) ==
    CASE cls = "Job" -> {"priority"}
      [] cls = "Task" -> {"limit"}
      [] cls = "OS" -> {"name", "type"}
      [] cls = "Image" -> {"name"}

\* the reference fields of the entity, the class each refers to and the
\* records of that class the store holds, in the order it lists them
RefFields(cls) ==
    CASE cls = "Job" -> {"task", "image"}
      [] cls = "Task" -> {"tool"}
      [] cls = "Image" -> {"os", "base_image"}
      [] OTHER -> {}

RefCls(cls, field) ==
    CASE cls = "Job" /\ field = "task" -> "Task"
      [] cls = "Job" /\ field = "image" -> "Image"
      [] cls = "Task" /\ field = "tool" -> "Code"
      [] cls = "Image" /\ field = "os" -> "OS"
      [] cls = "Image" /\ field = "base_image" -> "Image"

RefCandidates(cls, field) ==
    CASE cls = "Job" /\ field = "task" -> <<"t1", "t2">>
      [] cls = "Job" /\ field = "image" -> <<"i1">>
      [] cls = "Task" /\ field = "tool" -> <<"ToolA", "ToolB">>
      [] cls = "Image" /\ field = "os" -> <<"o1">>
      [] cls = "Image" /\ field = "base_image" -> <<"i1">>
      [] OTHER -> << >>

\* the class attribute interactive_create_command
InteractiveCreateCommand(refd) ==
    CASE refd = "Task" -> StrV(<<"task create --shell">>)
      [] refd = "Code" -> StrV(<<"code create --shell">>)
      [] refd = "Image" -> StrV(<<"image create --shell">>)
      [] refd = "OS" -> StrV(<<"os create --shell">>)
      [] OTHER -> NoneV

\* what the GET of the listing can come to: the records (all of them, or none
\* when the store holds none that match), a refused connection, or any other
\* failure of the request or an answer that is no JSON
ListingAnswers(cls, field) ==
    { [k |-> "records", l |-> RefCandidates(cls, field)],
      [k |-> "records", l |-> << >>],
      [k |-> "refused", l |-> << >>],
      [k |-> "failed", l |-> << >>] }

\* utils.json_request: a ConnectionError becomes TalusApiError, every other
\* exception is swallowed and None is returned in place of the response
JsonRequest(answer) ==
    CASE answer.k = "refused" -> Raise("TalusApiError")
      [] answer.k = "failed" -> NoneV
      [] OTHER -> answer

\* TalusModel.objects_raw and objects: r.json() inside a bare except, which
\* turns a None response and an unparsable body into the empty list
Objects(answer) ==
    LET r == JsonRequest(answer)
    IN  IF r.k = "raise" THEN r
        ELSE IF r = NoneV THEN [k |-> "records", l |-> << >>]
        ELSE r

\* what the user answers at idx_prompt: an index of the table or "q"
QuitAnswer == 0 - 1

\* the table model_prompt prints: one row per candidate, after a NEW row when
\* creating is allowed
PromptRows(models, newAllowed) ==
    IF newAllowed
    THEN <<[idx |-> 0, id |-> "NEW"]>> \o
         [i \in 1..Len(models) |-> [idx |-> i, id |-> models[i]]]
    ELSE [i \in 1..Len(models) |-> [idx |-> i - 1, id |-> models[i]]]

\* a model_prompt that returns models[idx] whether or not NEW is listed
ModelPromptUnshifted(models, newAllowed, answer) ==
    IF Len(models) = 0 THEN Raise("IndexError")
    ELSE IF answer = QuitAnswer THEN NoneV
    ELSE IF newAllowed /\ answer = 0 THEN StrV(<<"NEW">>)
    ELSE IF answer + 1 > Len(models) THEN Raise("IndexError")
    ELSE Sym(models[answer + 1])

\* utils.model_prompt: fields[0] and models[0] are read before the prompt
ModelPrompt(models, newAllowed, answer) ==
    IF Len(models) = 0 THEN Raise("IndexError")
    ELSE IF answer = QuitAnswer THEN NoneV
    ELSE IF newAllowed
         THEN IF answer = 0 THEN StrV(<<"NEW">>) ELSE Sym(models[answer])
         ELSE Sym(models[answer + 1])

\* self._root.onecmd(interactive_create_command): the nested command returns,
\* or an exception TalusCmdBase.onecmd does not catch comes out of it
CreateCommandOutcomes == {"returned", "raised"}

\* how often one `set` runs the create command
MaxCreateRounds == 1

\* one pass of the while loop of do_set for a reference field
PromptRound(cls, field, answer, idx, created) ==
    LET listed == Objects(answer)
        newAllowed == InteractiveCreateCommand(RefCls(cls, field)) # NoneV
        base == [listing |-> answer.k, offered |-> newAllowed, ans |-> idx,
                 rows |-> << >>, pick |-> NoneV, news |-> 0]
    IN  IF listed.k = "raise" THEN [base EXCEPT !.listing = answer.k] @@ [out |-> "apierror"]
        ELSE LET got == ModelPrompt(listed.l, newAllowed, idx)
                 shown == [base EXCEPT !.rows = PromptRows(listed.l, newAllowed)]
             IN  IF got.k = "raise" THEN base @@ [out |-> "crash"]
                 ELSE IF got = NoneV THEN shown @@ [out |-> "quit"]
                 ELSE IF got = StrV(<<"NEW">>)
                      THEN shown @@ [out |-> IF created = "raised" THEN "crash" ELSE "again"]
                      ELSE [shown EXCEPT !.pick = got] @@ [out |-> "ok"]

\* the answers idx_prompt accepts for a table of the listing (others are
\* asked again)
PromptAnswers(cls, field, answer) ==
    LET listed == Objects(answer)
        n == IF listed.k = "raise" THEN 0 ELSE Len(listed.l)
    IN  IF n = 0 THEN {QuitAnswer}
        ELSE {QuitAnswer} \cup
             (0..(IF InteractiveCreateCommand(RefCls(cls, field)) # NoneV THEN n ELSE n - 1))

\* the while loop of do_set: every way it can end after at most n runs of
\* the create command
RECURSIVE RefPromptRuns(_, _, _)
RefPromptRuns(cls, field, n) ==
    UNION { UNION { UNION {
        LET r == PromptRound(cls, field, answer, idx, created)
        IN  IF r.out # "again" THEN {r}
            ELSE IF n = 0 THEN {}
            ELSE { [x EXCEPT !.news = @ + 1] : x \in RefPromptRuns(cls, field, n - 1) }
        : created \in CreateCommandOutcomes }
        : idx \in PromptAnswers(cls, field, answer) }
        : answer \in ListingAnswers(cls, field) }

\* do_show
MShow ==
    /\ InModelCmd
    /\ ReadLine
    /\ last' = [op |-> "show", ed |-> "model"]
    /\ UNCHANGED <<model, stack, phase, requests, nonEditor>>

\* do_set, field "params": self._param_cmd.cmdloop()
MSetParams ==
    /\ InModelCmd
    /\ ReadLine
    /\ IF Top.code = "none"
       THEN \* self._param_cmd is None: AttributeError, which onecmd does not catch
            /\ last' = [op |-> "set", ed |-> "model", field |-> "params",
                        castfail |-> FALSE, outcome |-> "crash"]
            /\ Crash
       ELSE /\ stack' = Append(stack,
                    ParamFrame(GetVal(model.f["params"]).d, Top.code, "", NoneV))
            /\ last' = [op |-> "set", ed |-> "model", field |-> "params",
                        castfail |-> FALSE, outcome |-> "child"]
            /\ UNCHANGED <<model, phase, requests>>
    /\ UNCHANGED nonEditor

\* do_set on a field that is no reference: cast, validate, setattr
MSetField ==
    /\ InModelCmd
    /\ ReadLine
    /\ \E field \in ScalarFields(model.cls) \cup {"nosuch"} : \E args \in ModelArgLists :
        /\ IF field \notin DOMAIN ClassFields(model.cls) \/ Len(args) < 1 THEN
               /\ last' = [op |-> "set", ed |-> "model", field |-> field,
                           castfail |-> FALSE, outcome |-> "error"]
               /\ UNCHANGED <<model, stack, phase, requests>>
           ELSE
               LET fd == ClassFields(model.cls)[field]
                   raw == IF fd.default.k \in {"list", "tuple"}
                          THEN ListV([i \in 1..Len(args) |-> StrV(args[i])])
                          ELSE StrV(args[1])
                   c == FieldCast(fd, raw)
               IN  IF c.k = "raise" THEN
                       /\ last' = [op |-> "set", ed |-> "model", field |-> field,
                                   castfail |-> TRUE, outcome |-> "crash"]
                       /\ Crash
                   ELSE IF ~FieldValidate(fd, c) THEN
                       /\ last' = [op |-> "set", ed |-> "model", field |-> field,
                                   castfail |-> FALSE, outcome |-> "error"]
                       /\ UNCHANGED <<model, stack, phase, requests>>
                   ELSE
                       /\ last' = [op |-> "set", ed |-> "model", field |-> field,
                                   castfail |-> FALSE, outcome |-> "ok"]
                       /\ model' = [model EXCEPT !.f = ModelSetAttr(model.f, field, c)]
                       /\ UNCHANGED <<stack, phase, requests>>
    /\ UNCHANGED nonEditor

\* do_set on a reference field: the candidates are listed and prompted for
\* until the user picks one or quits; TalusApiError is reported by onecmd,
\* any other exception is not caught; a new task or tool re-binds the
\* ParameterCmd
MSetRef ==
    /\ InModelCmd
    /\ ReadLine
    /\ \E field \in RefFields(model.cls) :
       \E run \in RefPromptRuns(model.cls, field, MaxCreateRounds) :
        /\ last' = [op |-> "set", ed |-> "model", field |-> field, castfail |-> FALSE,
                    outcome |-> run.out, listing |-> run.listing, offered |-> run.offered,
                    ans |-> run.ans, rows |-> run.rows, news |-> run.news,
                    was |-> model.f]
        /\ IF run.out = "crash" THEN Crash
           ELSE IF run.out \in {"quit", "apierror"} THEN UNCHANGED <<model, stack, phase>>
           ELSE LET f1 == ModelSetAttr(model.f, field, run.pick)
                    f2 == IF model.cls = "Job" /\ field = "task"
                          THEN ModelSetAttr(f1, "params",
                                            DictV(Tasks[SymName(run.pick)].params))
                          ELSE f1
                IN  /\ IF field \in {"task", "tool"}
                       THEN /\ model' = [model EXCEPT !.f = UpdateCodeAndParamCmd(model.cls, f2)]
                            /\ stack' = [stack EXCEPT ![Len(stack)].code = CodeOfModel(model.cls, f2)]
                       ELSE /\ model' = [model EXCEPT !.f = f2]
                            /\ UNCHANGED stack
                    /\ UNCHANGED phase
    /\ UNCHANGED <<requests, nonEditor>>

\* do_done (quit/save/exit/up): return True, and the calling command goes on
MDone ==
    /\ InModelCmd
    /\ ReadLine
    /\ last' = [op |-> "done", ed |-> "model", gate |-> FALSE, unset |-> {},
                ans |-> "none", ended |-> TRUE]
    /\ AfterModelLoop(CmdloopCancelled("done"))
    /\ UNCHANGED nonEditor

(***************************************************************************)
(* ParameterCmd's commands                                                 *)
(***************************************************************************)
SetTop(params) == [stack EXCEPT ![Len(stack)].params = params]

\* do_show
PShow ==
    /\ InParameterCmd
    /\ ReadLine
    /\ stack' = SetTop(ShowSetDefault(Top.params, Top.code))
    /\ last' = [op |-> "show", ed |-> "param"]
    /\ UNCHANGED <<model, phase, requests, nonEditor>>

\* do_set on a parameter of a native type
PSetLeaf ==
    /\ InParameterCmd
    /\ ReadLine
    /\ \E name \in {n \in Declared(Top.code) : Codes[Top.code].params[n].type = "native"}
                   \cup {"nosuch"} :
       \E args \in ParamArgLists :
        /\ IF name \notin Declared(Top.code) \/ Len(args) < 1 THEN
               /\ last' = [op |-> "set", ed |-> "param", field |-> name,
                           castfail |-> FALSE, outcome |-> "error"]
               /\ UNCHANGED <<model, stack, phase, requests>>
           ELSE
               LET v == ConvertVal(Codes[Top.code].params[name].name, args)
               IN  IF v.k = "raise" THEN
                       /\ last' = [op |-> "set", ed |-> "param", field |-> name,
                                   castfail |-> TRUE, outcome |-> "crash"]
                       /\ Crash
                   ELSE
                       /\ last' = [op |-> "set", ed |-> "param", field |-> name,
                                   castfail |-> FALSE, outcome |-> "ok"]
                       /\ stack' = SetTop((name :> v) @@ Top.params)
                       /\ UNCHANGED <<model, phase, requests>>
    /\ UNCHANGED nonEditor

\* do_set on a component parameter: _handle_set_component up to the child's
\* first prompt.  `change` answers "Do you want to change the component
\* class?"; `pick` answers the subclass prompt, "q" making model_prompt
\* return None, whose .params ParameterCmd.__init__ then reads.
PSetComponent ==
    /\ InParameterCmd
    /\ ReadLine
    /\ \E name \in {n \in Declared(Top.code) : Codes[Top.code].params[n].type = "component"} :
       \E change \in {"y", "n"} :
       \E pick \in (DOMAIN Codes) \cup {"q"} :
        LET base == Codes[Top.code].params[name].name
            descendants == Descendants(base)
            isSet == name \in DOMAIN Top.params /\ Top.params[name] # NoneV
            old == IF name \in DOMAIN Top.params THEN Top.params[name] ELSE Absent
            keep == isSet /\ (descendants = {} \/ change = "n")
            prompted == descendants # {} /\ ~keep
            component ==
                IF prompted THEN pick
                ELSE IF isSet /\ descendants # {} THEN SymName(old.d["class"])
                ELSE base
            subParams == IF keep THEN old.d["params"].d ELSE EmptyDict
        IN  /\ pick \in {base, "q"} \cup descendants
            /\ IF prompted /\ pick = "q" THEN
                   /\ last' = [op |-> "set", ed |-> "param", field |-> name,
                               castfail |-> FALSE, outcome |-> "crash"]
                   /\ Crash
               ELSE
                   /\ component # "q"
                   /\ stack' = Append(stack,
                          ParamFrame(ParameterCmdInit(subParams, component), component, name, old))
                   /\ last' = [op |-> "set", ed |-> "param", field |-> name,
                               castfail |-> FALSE, outcome |-> "child",
                               kept |-> keep, prompted |-> prompted]
                   /\ UNCHANGED <<model, phase, requests>>
    /\ UNCHANGED nonEditor

\* do_done (quit/save/exit/up): the loop ends when _validate_fields passes
PDone ==
    /\ InParameterCmd
    /\ ReadLine
    /\ \E ans \in {"y", "n"} :
        LET unset == PrintUnsetFields(Top.params, << >>)
            ended == ValidateFields(Top.params, ans)
        IN  /\ last' = [op |-> "done", ed |-> "param", gate |-> TRUE, unset |-> unset,
                        ans |-> IF unset = {} THEN "none" ELSE ans, ended |-> ended,
                        tree |-> Top.params, code |-> Top.code, slot |-> Top.slot,
                        was |-> Top.was, depth |-> Len(stack)]
            /\ IF ended THEN AfterParamLoop
               ELSE UNCHANGED <<model, stack, phase, requests>>
    /\ UNCHANGED nonEditor

\* Ctrl-C at the prompt of the innermost editor: its cmdloop() returns True
Interrupt ==
    /\ Editing
    /\ ReadLine
    /\ last' = [op |-> "interrupt", ed |-> Top.ed, gate |-> FALSE, ended |-> TRUE,
                nreq |-> Len(requests), depth |-> Len(stack)]
    /\ IF Top.ed = "param" THEN AfterParamLoop
       ELSE AfterModelLoop(CmdloopCancelled("interrupt"))
    /\ UNCHANGED nonEditor

Next ==
    \/ StartJobCreate
    \/ StartTaskEdit
    \/ StartOSCreate
    \/ StartImageEdit
    \/ MShow
    \/ MSetParams
    \/ MSetField
    \/ MSetRef
    \/ MDone
    \/ PShow
    \/ PSetLeaf
    \/ PSetComponent
    \/ PDone
    \/ Interrupt

Spec == Init /\ [][Next]_vars

(***************************************************************************)
(* Properties of the editors                                               *)
(***************************************************************************)
\* the unset leaves of a parameter tree, each by its full path from the root
RECURSIVE UnsetPaths(_)
UnsetPaths(params) ==
    UNION { IF IsDict(params[key])
            THEN { <<key>> \o q : q \in UnsetPaths(params[key].d["params"].d) }
            ELSE IF params[key] = NoneV THEN {<<key>>} ELSE {} :
            key \in DOMAIN params }

\* the parameters the code and the selected components declare that hold no
\* value in the tree, each by its full path
RECURSIVE DeclaredUnset(_, _)
DeclaredUnset(code, params) ==
    UNION { IF key \notin DOMAIN params THEN {<<key>>}
            ELSE IF params[key] = NoneV THEN {<<key>>}
            ELSE IF IsDict(params[key])
            THEN { <<key>> \o q :
                     q \in DeclaredUnset(SymName(params[key].d["class"]),
                                         params[key].d["params"].d) }
            ELSE {} :
            key \in Declared(code) }

IsSuffix(u, q) ==
    /\ Len(u) >= 1
    /\ Len(u) <= Len(q)
    /\ u = SubSeq(q, Len(q) - Len(u) + 1, Len(q))

\* the mapping and the mapping of every component in it hold exactly the
\* declared names
RECURSIVE TreeKeysExact(_, _)
TreeKeysExact(code, params) ==
    /\ DOMAIN params = Declared(code)
    /\ \A key \in DOMAIN params :
          IsDict(params[key]) =>
              TreeKeysExact(SymName(params[key].d["class"]), params[key].d["params"].d)

C6_CastFailureKeepsEditing ==
    (last.op = "set" /\ last.castfail) =>
        (last.outcome = "error" /\ phase = "editing")

\* C7: after the child editor of a component slot whose class was changed is
\* done, the slot holds the chosen class and a mapping whose keys are exactly
\* the names that class declares.
C7_SubtypeChangeResets ==
    ( /\ last.op = "done" /\ last.ed = "param" /\ last.ended
      /\ last.slot # ""
      /\ IsDict(last.was)
      /\ SymName(last.was.d["class"]) # last.code )
    => /\ Top.params[last.slot].d["class"] = Sym(last.code)
       /\ DOMAIN Top.params[last.slot].d["params"].d = Declared(last.code)

\* C8: the gate reports each unset leaf of the edited tree by its full
\* dotted path, and nothing else.
C8_GateReportsFullPaths ==
    (last.op = "done" /\ last.ed = "param") => last.unset = UnsetPaths(last.tree)

\* C9: the gate reports every parameter, declared by the code or by a
\* selected component at any depth, that holds no value (whatever prefix
\* the report gives its path).
C9_GateReportsEveryDeclaredUnset ==
    (last.op = "done" /\ last.ed = "param") =>
        \A q \in DeclaredUnset(last.code, last.tree) :
            \E u \in last.unset : IsSuffix(u, q)

\* C10: after a parameter is set, the mapping the editor works on and the
\* mapping of every component in it hold exactly the declared names.
C10_KeysAreExactlyDeclared ==
    (InParameterCmd /\ last.op = "set" /\ last.ed = "param" /\ last.outcome = "ok")
        => TreeKeysExact(Top.code, Top.params)

\* C11: re-entering a component slot whose class is kept starts the child
\* editor on the slot's values (those the class declares); a command of the
\* child changes no set leaf but the one `set` names; and what the child
\* holds when it returns is what the slot holds.
C11_KeptSlotKeepsLeaves ==
    [][ /\ ( /\ InParameterCmd
             /\ Len(stack') = Len(stack) + 1
             /\ last'.op = "set" /\ last'.outcome = "child" /\ last'.kept )
          => LET child == stack'[Len(stack')]
                 old == Top.params[last'.field].d["params"].d
             IN  \A key \in (DOMAIN old) \cap Declared(child.code) :
                     key \in DOMAIN child.params /\ child.params[key] = old[key]
        /\ ( /\ InParameterCmd
             /\ Len(stack') = Len(stack)
             /\ phase' = "editing" )
          => \A key \in DOMAIN Top.params :
                 \/ Top.params[key] = NoneV
                 \/ last'.op = "set" /\ last'.field = key /\ last'.outcome = "ok"
                 \/ /\ key \in DOMAIN stack'[Len(stack')].params
                    /\ stack'[Len(stack')].params[key] = Top.params[key]
        /\ ( /\ InParameterCmd
             /\ Top.slot # ""
             /\ Len(stack') = Len(stack) - 1 )
          => stack'[Len(stack')].params[Top.slot] = CompV(Top.code, Top.params)
      ]_vars

C11_Witness ==
    /\ last.op = "done" /\ last.ed = "param" /\ last.ended
    /\ last.slot = "a"
    /\ IsDict(last.was)
    /\ SymName(last.was.d["class"]) = last.code
    /\ "x" \in DOMAIN last.was.d["params"].d
    /\ "b" \notin DOMAIN last.was.d["params"].d
    /\ "b" \in DOMAIN last.tree
    /\ InParameterCmd
    /\ Top.params["a"].d["params"].d["x"] = last.was.d["params"].d["x"]

\* the component classes of the registry declared with `base` among their bases
DeclaredSubtypes(base) ==
    {c \in DOMAIN Codes : Codes[c].type = "component" /\ base \in Codes[c].bases}

\* C19: `set` on a component slot whose base class has no declared subclass
\* opens the child editor on the base class without the subclass prompt;
\* the prompt is shown only for a base class that has subclasses.
C19_SingleCandidateNotPrompted ==
    (last.op = "set" /\ last.ed = "param" /\ last.outcome = "child") =>
        LET parent == stack[Len(stack) - 1]
            base == Codes[parent.code].params[last.field].name
        IN  /\ DeclaredSubtypes(base) = {} => (~last.prompted /\ Top.code = base)
            /\ last.prompted => DeclaredSubtypes(base) # {}
            /\ Top.slot = last.field

C19_Witness ==
    /\ last.op = "set" /\ last.ed = "param" /\ last.outcome = "child"
    /\ last.field = "b"
    /\ ~last.prompted
    /\ ~last.kept
    /\ Top.code = "CompD"

\* C20: an interrupt at the prompt of a parameter editor (the one `set
\* params` opened or a nested component editor) ends that editor alone: its
\* parent is the running editor afterwards, the same editor on the same code
\* as before, every editor around the parent is untouched, and the
\* create/edit command is still editing.
C20_CancelEndsInnermostOnly ==
    [][ (InParameterCmd /\ last'.op = "interrupt") =>
            /\ phase' = "editing"
            /\ Len(stack') = Len(stack) - 1
            /\ \A i \in 1..(Len(stack) - 2) : stack'[i] = stack[i]
            /\ stack'[Len(stack')].ed = stack[Len(stack) - 1].ed
            /\ stack'[Len(stack')].code = stack[Len(stack) - 1].code
            /\ requests' = requests
      ]_vars

C20_Witness ==
    /\ last.op = "interrupt"
    /\ last.ed = "param"
    /\ last.depth = 3
    /\ InParameterCmd
    /\ Len(stack) = 2

\* C21: when the store call that lists the candidates of a reference field
\* fails during `set`, the failure is reported and not retried, the field
\* keeps its value and the editor is still editing.
C21_ListingFailureKeepsEditing ==
    (last.op = "set" /\ last.ed = "model" /\ last.field \in RefFields(model.cls)
        /\ last.listing \in {"refused", "failed"})
    => /\ last.outcome = "apierror"
       /\ phase = "editing"
       /\ model.f = last.was

\* C22: `set` on a reference field for which the store lists no candidate
\* tells the user so, leaves the field as it was and keeps the editor editing.
C22_NoCandidateKeepsEditing ==
    (last.op = "set" /\ last.ed = "model" /\ last.field \in RefFields(model.cls)
        /\ last.listing = "records" /\ last.rows = << >>)
    => /\ phase = "editing"
       /\ model.f = last.was

\* a `set` on a reference field of the entity editor whose listing was shown
RefSetPrompted ==
    /\ last.op = "set" /\ last.ed = "model" /\ last.field \in RefFields(model.cls)
    /\ last.listing = "records" /\ last.rows # << >>

SetTaskStep ==
    /\ InModelCmd /\ model.cls = "Job"
    /\ last'.op = "set" /\ last'.ed = "model" /\ last'.field = "task"
    /\ last'.outcome = "ok"

\* a step of the job editor that is a `set` of any other field of the job
SetOtherFieldStep ==
    /\ InModelCmd /\ model.cls = "Job"
    /\ last'.op = "set" /\ last'.ed = "model" /\ last'.field \notin {"task", "params"}

\* C25 as the code has it: setting `task` to T makes the job's parameters
\* those of T's parameters that T's tool declares and binds the parameter
\* editor to T's tool; setting another field leaves the parameters alone.
C25_SetTaskCascadesDeclaredParams ==
    [][ /\ SetTaskStep =>
            LET t == SymName(GetVal(model'.f["task"]))
                tp == Tasks[t].params
            IN  /\ GetVal(model'.f["params"]) =
                      DictV([n \in {k \in DOMAIN tp : k \in DOMAIN Codes[Tasks[t].tool].params}
                                |-> tp[n]])
                /\ stack'[Len(stack')].ed = "model"
                /\ stack'[Len(stack')].code = Tasks[t].tool
        /\ SetOtherFieldStep => model'.f["params"] = model.f["params"]
      ]_vars

C25_Witness ==
    /\ InModelCmd /\ model.cls = "Job"
    /\ last.op = "set" /\ last.ed = "model" /\ last.field = "task" /\ last.outcome = "ok"
    /\ GetVal(last.was["task"]) = Sym("t1")
    /\ GetVal(model.f["task"]) = Sym("t2")
    /\ GetVal(model.f["params"]) = DictV([p |-> IntV(2)])
    /\ Top.code = "ToolB"

\* C25: setting `task` to T replaces the job's parameters with T's
\* parameters and binds the parameter editor to T's tool; setting any other
\* field leaves the job's parameters unchanged.
C25_SetTaskReplacesParams ==
    [][ /\ SetTaskStep =>
            LET t == SymName(GetVal(model'.f["task"]))
            IN  /\ GetVal(model'.f["params"]) = DictV(Tasks[t].params)
                /\ stack'[Len(stack')].code = Tasks[t].tool
        /\ SetOtherFieldStep => model'.f["params"] = model.f["params"]
      ]_vars

\* a step in which `done` ended the entity editor and the store refused the
\* create or update request the command then sent
SaveRejectedStep ==
    /\ InModelCmd
    /\ last'.op = "done" /\ last'.ed = "model"
    /\ Len(requests') = Len(requests) + 1
    /\ ~requests'[Len(requests')].ok

\* C26: when the store refuses the create or update after `done`, the user
\* is back in an editor on the same entity with the edits intact, whatever
\* the entity is.
C26_RejectedSaveReopensEditor ==
    [][ SaveRejectedStep =>
            /\ phase' = "editing"
            /\ Len(stack') = 1 /\ stack'[1].ed = "model"
            /\ model' = model
      ]_vars

\* C27: `show` in a parameter editor leaves the parameter tree as it was,
\* and what a following `done` finds unset, hence whether it asks and ends,
\* is what it would have been without the `show`.
C27_ShowChangesNothing ==
    [][ (InParameterCmd /\ last'.op = "show" /\ last'.ed = "param") =>
            /\ stack' = stack
            /\ model' = model
            /\ \A ans \in {"y", "n"} :
                  ValidateFields(stack'[Len(stack')].params, ans)
                      = ValidateFields(Top.params, ans)
      ]_vars

\* C29: when the component editor that `set <slot>` opened is cancelled,
\* the parent's tree is what it was before that `set`: the slot has the
\* class and the values it had.
C29_CancelledChildLeavesParentTree ==
    [][ (InParameterCmd /\ Top.slot # "" /\ last'.op = "interrupt") =>
            /\ Len(stack') = Len(stack) - 1
            /\ stack'[Len(stack')].params = stack[Len(stack) - 1].params
      ]_vars

====
